---- MODULE Spec2Model ----
(***************************************************************************)
(* Structured-logging validation and error/response correlation pipeline   *)
(* of Pino_ts_demo: the schema-driven field validator and logger wrapper   *)
(* (utils/pino_util), and the three correlators that turn a request        *)
(* outcome into a log call (errorLogger, loggerMiddleware, responseLogger) *)
(* together with the handlers that answer the request; the building of    *)
(* the logger registry at the start of the process (validateLoggerConfig,  *)
(* createLogger, wrapLogger, generateLoggers) and what the loggers write.  *)
(***************************************************************************)
EXTENDS Integers, Sequences, FiniteSets, TLC

VARIABLES
    schema,     \* the imported pino_loggers.json (Loggers), read-only after start
    proc,       \* the node process: loading the module, running, or exited
    host,       \* what the process reads from outside: process.env.NODE_ENV, new Date()
    registry,   \* the exported loggers: key -> reference, and the objects referred to
    outcome,    \* the ApiError / ApiResponse object a route passed to next(), or NoObj
    res,        \* the express Response: logger slot, statusCode, bodies sent
    sink,       \* calls that reached the underlying pino methods (originalFn), in order
    passes,     \* number of handler runs made on the current request's objects
    last        \* what the latest handler run did (its input, throw, next, emission)

vars == <<schema, proc, host, registry, outcome, res, sink, passes, last>>

(***************************************************************************)
(* Bounds of the model.                                                    *)
(***************************************************************************)
\* how many times one outcome / response is passed through the correlators
MaxPasses == 3
\* how many direct calls of wrapped logger methods one behaviour makes
MaxLogCalls == 1
\* how many operations (calls, child bindings, assignments) one behaviour
\* makes on the exported logger objects
MaxRegistryOps == 2

(***************************************************************************)
(* JavaScript values.                                                      *)
(***************************************************************************)
Null == "null"            \* the value null
Undefined == "undefined"  \* the value undefined / an absent property
NoObj == [cls |-> "none"] \* no outcome has been produced yet

\* an object literal with no own keys: {}
EmptyObj == [k \in {} |-> ""]

\* A value handed to a log method as its first argument: t is what the
\* value is ("object", "null", "string", "number", "undefined"), f its own
\* keys and their values when it is an object.
Obj(f) == [t |-> "object", f |-> f]
NonObj(t) == [t |-> t, f |-> EmptyObj]

\* typeof v
TypeOf(v) == IF v.t = "null" THEN "object" ELSE v.t

\* !v for the values modelled (objects are truthy, null and undefined falsy;
\* the string and the number passed as payload are non-empty / non-zero)
Falsy(v) == v.t \in {"null", "undefined"}

\* the keys of an object after removing the keys in drop: const {a, b, ...rest} = o
Rest(o, drop) == [k \in (DOMAIN o) \ drop |-> o[k]]

\* {...o, [key]: val}
With(o, key, val) == [k \in (DOMAIN o) \cup {key} |-> IF k = key THEN val ELSE o[k]]

(***************************************************************************)
(* The schema (config/pino_loggers.json) and the logger registry.          *)
(***************************************************************************)
Methods == {"trace", "debug", "info", "warn", "error", "fatal"}

\* the four exports the correlators read from the registry
LoggerKeys == {"systemLogger", "authLogger", "validationLogger", "usageLogger"}

NoFields == [m \in Methods |-> <<>>]

\* common.requiredFields as in the spec's example: code and context for
\* every method
CodeContext == [m \in Methods |-> <<"code", "context">>]

\* the order in which Object.entries lists the keys of loggers
KeyOrder == <<"systemLogger", "authLogger", "validationLogger", "usageLogger">>

\* One entry of loggers as the JSON file gives it: t is what the value is
\* ("object", "null", "string"); category is the text of its category and
\* categoryType what that value is ("string", "number", "undefined");
\* customRequiredShape tells whether the required-field lists are arrays of
\* strings ("arrays"), hold a plain string in place of an array ("string")
\* or an array with a number in it ("mixed").
EntryOf(category, custom, redact) ==
    [t |-> "object", category |-> category, categoryType |-> "string",
     customRequiredFields |-> custom, customRequiredShape |-> "arrays",
     redactFields |-> redact]

Entry(category, custom) == EntryOf(category, custom, <<>>)

\* the parsed JSON file: top is what the top-level value is ("object",
\* "array", "null", "string"), hasLoggers whether it has a loggers property,
\* order the keys of loggers as Object.entries lists them
ConfigOf(common, redact, order, entries) ==
    [top |-> "object", hasLoggers |-> TRUE, order |-> order,
     common |-> [requiredFields |-> common, requiredShape |-> "arrays",
                 redactFields |-> redact],
     loggers |-> entries]

\* The configurations the model is run with: the required-field lists are
\* absent (<<>>), shared, or extended by a category; SchemaGap registers no
\* systemLogger, so the table entry of category "system" is undefined; the
\* entries of SchemaOpen carry the categories of other keys.
SchemaFull ==
    ConfigOf(CodeContext, <<"password">>, KeyOrder,
        [k \in LoggerKeys |->
        CASE k = "systemLogger" -> Entry("System", NoFields)
          [] k = "authLogger" ->
               EntryOf("Authentication", [NoFields EXCEPT !["warn"] = <<"reason">>], <<"reason">>)
          [] k = "validationLogger" -> Entry("Validation", NoFields)
          [] k = "usageLogger" ->
               EntryOf("Usage", [NoFields EXCEPT !["error"] = <<"context", "error">>],
                       <<"token", "password">>)])

SchemaGap ==
    ConfigOf([CodeContext EXCEPT !["info"] = <<"code">>, !["debug"] = <<>>], <<>>,
        <<"authLogger", "usageLogger">>,
        [k \in {"usageLogger", "authLogger"} |->
        IF k = "usageLogger"
        THEN EntryOf("Usage", [NoFields EXCEPT !["warn"] = <<"reason", "code">>, !["debug"] = <<>>],
                     <<"code">>)
        ELSE Entry("Authentication", NoFields)])

SchemaOpen ==
    ConfigOf(NoFields, <<"token">>, KeyOrder,
        [k \in LoggerKeys |->
        CASE k = "usageLogger" -> Entry("system", [NoFields EXCEPT !["info"] = <<"statusCode">>])
          [] k = "systemLogger" -> Entry("usage", NoFields)
          [] k = "authLogger" -> Entry("authentication", NoFields)
          [] k = "validationLogger" -> Entry("billing", NoFields)])

Schemas == {SchemaFull, SchemaGap, SchemaOpen}

\* schema?.common?.requiredFields?.[method] || []
commonRequiredFields(sch, method) == sch.common.requiredFields[method]

\* the custom list left out of the merge
customRequiredFields_Ignored(sch, loggerKey, method) == <<>>

\* schema?.loggers?.[loggerKey]?.customRequiredFields?.[method] || []
customRequiredFields(sch, loggerKey, method) ==
    IF loggerKey \in DOMAIN sch.loggers
    THEN sch.loggers[loggerKey].customRequiredFields[method]
    ELSE <<>>

(***************************************************************************)
(* validateFields.                                                         *)
(***************************************************************************)
\* the list as it is, repetitions kept
SetSpread_Keep(list) == list

\* [...new Set(list)]: the list without repetitions, each element at the
\* place of its first occurrence
RECURSIVE SetSpread(_)
SetSpread(list) ==
    IF list = <<>> THEN <<>>
    ELSE LET front == SetSpread(SubSeq(list, 1, Len(list) - 1))
             x == list[Len(list)]
         IN IF \E i \in 1..Len(front) : front[i] = x THEN front ELSE Append(front, x)

\* list.join(", ")
RECURSIVE Join(_)
Join(list) ==
    IF list = <<>> THEN ""
    ELSE IF Len(list) = 1 THEN list[1]
    ELSE list[1] \o ", " \o Join(Tail(list))

\* a merge in which a custom list, when given, replaces the common one
requiredFields_CustomOverrides(sch, loggerKey, method) ==
    IF customRequiredFields(sch, loggerKey, method) # <<>>
    THEN customRequiredFields(sch, loggerKey, method)
    ELSE commonRequiredFields(sch, method)

\* the merged list: [...new Set([...commonRequiredFields, ...customRequiredFields])]
requiredFields(sch, loggerKey, method) ==
    SetSpread(commonRequiredFields(sch, method) \o customRequiredFields(sch, loggerKey, method))

\* field in obj (the field names of the model are not names of inherited
\* properties, so membership is among the object's own keys)
In(field, obj) == field \in DOMAIN obj.f

MissingMessage(loggerKey, method, fields) ==
    "Missing required fields for " \o loggerKey \o "." \o method \o ": " \o Join(fields)

\* requiredFields.filter((field) => !(field in obj))
RECURSIVE missingFields(_, _)
missingFields(required, obj) ==
    IF required = <<>> THEN <<>>
    ELSE LET rest == missingFields(Tail(required), obj)
         IN IF ~In(Head(required), obj) THEN <<Head(required)>> \o rest ELSE rest

\* the fields validateFields names in the Error it throws; <<>> when it
\* returns normally
validateFieldsMissing(loggerKey, method, sch, obj) ==
    LET required == requiredFields(sch, loggerKey, method)
    IN IF TypeOf(obj) # "object" \/ Falsy(obj)
       THEN required
       ELSE missingFields(required, obj)

\* validateFields(loggerKey, method, schema, obj): returns, or throws an
\* Error whose message lists the missing fields (the catch block logs the
\* error to the console and rethrows it)
validateFields(loggerKey, method, sch, obj) ==
    LET missing == validateFieldsMissing(loggerKey, method, sch, obj)
    IN IF Len(missing) > 0
       THEN [threw |-> TRUE, message |-> MissingMessage(loggerKey, method, missing)]
       ELSE [threw |-> FALSE, message |-> ""]

(***************************************************************************)
(* wrapLoggerMethod: the wrapped severity method of a registry logger.     *)
(***************************************************************************)
\* one call of the underlying pino method: originalFn(obj, msg, ...args)
SinkCall(loggerKey, method, obj, msg, args) ==
    [key |-> loggerKey, method |-> method, obj |-> obj, msg |-> msg, args |-> args]

\* a wrapper that logs the validation failure and goes on to the sink
wrapLoggerMethod_LogAndContinue(loggerKey, method, sch, obj, msg, args) ==
    LET v == validateFields(loggerKey, method, sch, obj)
    IN [threw |-> FALSE, message |-> v.message,
        calls |-> <<SinkCall(loggerKey, method, obj, msg, args)>>]

\* a wrapper that remembers the loggers it has validated a payload for and
\* lets their later calls through
wrapLoggerMethod_Remembers(loggerKey, method, sch, obj, msg, args) ==
    LET v == validateFields(loggerKey, method, sch, obj)
    IN IF v.threw /\ ~(\E i \in 1..Len(sink) : sink[i].call.key = loggerKey)
       THEN [threw |-> TRUE, message |-> v.message, calls |-> <<>>]
       ELSE [threw |-> FALSE, message |-> "",
             calls |-> <<SinkCall(loggerKey, method, obj, msg, args)>>]

\* (obj, msg, ...args) => { validateFields(...); return originalFn(obj, msg, ...args) }
\* threw/message: the Error thrown to the caller; calls: the calls made of
\* the underlying method.
wrapLoggerMethod(loggerKey, method, sch, obj, msg, args) ==
    LET v == validateFields(loggerKey, method, sch, obj)
    IN IF v.threw
       THEN [threw |-> TRUE, message |-> v.message, calls |-> <<>>]
       ELSE [threw |-> FALSE, message |-> "",
             calls |-> <<SinkCall(loggerKey, method, obj, msg, args)>>]

\* generateLoggers: the registry holds a wrapped logger under every key of
\* schema.loggers whose entry has a category
loggers(sch) == {k \in DOMAIN sch.loggers : sch.loggers[k].category # ""}

(***************************************************************************)
(* Building the registry: validateLoggerConfig, createLogger, wrapLogger,  *)
(* generateLoggers and the initialisation of the module.                   *)
(***************************************************************************)
\* !value.category
CategoryFalsy(entry) ==
    \/ entry.categoryType = "undefined"
    \/ entry.categoryType = "string" /\ entry.category = ""

\* the first key of keys whose entry validateLoggerConfig refuses, "-" when
\* it refuses none: typeof value !== "object" || !value.category (reading
\* the category of null throws a TypeError)
RECURSIVE refusedEntry(_, _)
refusedEntry(config, keys) ==
    IF keys = <<>> THEN "-"
    ELSE LET value == config.loggers[Head(keys)]
         IN IF value.t # "object" \/ CategoryFalsy(value)
            THEN Head(keys)
            ELSE refusedEntry(config, Tail(keys))

\* validateLoggerConfig(config): returns config, or throws
validateLoggerConfig(config) ==
    IF config.top # "object"
    THEN [threw |-> TRUE, message |-> "Invalid or missing loggers.json configuration."]
    ELSE IF ~config.hasLoggers
    THEN [threw |-> TRUE, message |-> "TypeError: Cannot convert undefined or null to object"]
    ELSE IF refusedEntry(config, config.order) # "-"
    THEN [threw |-> TRUE,
          message |-> "Invalid logger configuration: " \o refusedEntry(config, config.order)]
    ELSE [threw |-> FALSE, message |-> ""]

\* the paths of the common list alone
redactPaths_CommonOnly(config, loggerKey) == config.common.redactFields

\* [...(commonConfig?.redactFields || []), ...redactFields]
redactPaths(config, loggerKey) ==
    config.common.redactFields \o config.loggers[loggerKey].redactFields

\* a redaction path pino cannot parse: pino(options) throws on it
MalformedPath == "a..b"

\* new Date().toISOString(): the UTC date, "T", the UTC time of day
toISOString(now) == <<now.date, "T", now.time>>

\* iso.split("T")[0]
DatePart(iso) == iso[1]

\* a log file path that leaves the level directory out
generateLogFilePath_Flat(parent, context) ==
    "./logs/" \o parent \o "/" \o context \o "-" \o DatePart(toISOString(host.now)) \o ".log"

\* ./logs/${parent}/${context}/${context}-${date}.log, date being the UTC
\* date the system clock shows when the path is generated
generateLogFilePath(parent, context) ==
    LET date == DatePart(toISOString(host.now))
    IN "./logs/" \o parent \o "/" \o context \o "/" \o context \o "-" \o date \o ".log"

\* the pino/file targets of createTransportConfig: level and destination
createTransportConfig(loggerCategory) ==
    [l \in {"error", "warn", "info"} |-> generateLogFilePath(loggerCategory, l)]

\* the logger with no method wrapped
pinoMethods(loggerKey) ==
    [m \in Methods |-> [wrapped |-> FALSE, loggerKey |-> loggerKey, method |-> m]]

\* a logger created without the redact option
createLogger_Unredacted(loggerKey, loggerCategory, redactFields) ==
    [threw |-> FALSE,
     logger |-> [key |-> loggerKey, level |-> "debug",
                 redact |-> [paths |-> <<>>, censor |-> "[Redacted]"],
                 targets |-> createTransportConfig(loggerCategory),
                 bindings |-> {}, props |-> {},
                 methods |-> pinoMethods(loggerKey)]]

\* createLogger(loggerKey, loggerCategory, redactFields): the pino logger,
\* or throws "Failed to create logger" when pino(options) throws
createLogger(loggerKey, loggerCategory, redactFields) ==
    IF \E i \in 1..Len(redactFields) : redactFields[i] = MalformedPath
    THEN [threw |-> TRUE, logger |-> NoObj]
    ELSE [threw |-> FALSE,
          logger |-> [key |-> loggerKey, level |-> "debug",
                      redact |-> [paths |-> redactFields, censor |-> "[Redacted]"],
                      targets |-> createTransportConfig(loggerCategory),
                      bindings |-> {}, props |-> {},
                      methods |-> pinoMethods(loggerKey)]]

methodsToWrap == {"info", "warn", "error", "debug", "fatal", "trace"}

\* a wrapper that leaves the methods below info as pino made them
wrapLogger_Partial(logger, loggerKey) ==
    [logger EXCEPT !.methods = [m \in Methods |->
        [wrapped |-> m \in {"info", "warn", "error", "fatal"},
         loggerKey |-> loggerKey, method |-> m]]]

\* wrapLogger(logger, loggerKey): logger.child({}) with every method of
\* methodsToWrap replaced by wrapLoggerMethod(original, loggerKey, method)
wrapLogger(logger, loggerKey) ==
    [logger EXCEPT !.methods = [m \in Methods |->
        [wrapped |-> m \in methodsToWrap, loggerKey |-> loggerKey, method |-> m]]]

\* every pino(options) and every logger.child({}) is a new object: its
\* reference is the next free place of the heap
NewRef_Shared(heap) == 1

NewRef(heap) == Len(heap) + 1

Store(heap, ref, object) ==
    IF ref <= Len(heap) THEN [heap EXCEPT ![ref] = object] ELSE Append(heap, object)

EmptyRegistry == [refs |-> [k \in {} |-> 0], heap |-> <<>>]

\* the reduce of generateLoggers over Object.entries(loggersConfig): acc is
\* the registry built so far, threw whether createLogger threw
RECURSIVE reduceLoggers(_, _, _)
reduceLoggers(config, keys, acc) ==
    IF keys = <<>> \/ acc.threw THEN acc
    ELSE LET loggerKey == Head(keys)
             loggerConfig == config.loggers[loggerKey]
         IN IF loggerKey = "" \/ loggerConfig.t = "null" \/ CategoryFalsy(loggerConfig)
            THEN reduceLoggers(config, Tail(keys), acc)
            ELSE LET c == createLogger(loggerKey, loggerConfig.category,
                                       redactPaths(config, loggerKey))
                     ref == NewRef(acc.heap)
                 IN IF c.threw
                    THEN [acc EXCEPT !.threw = TRUE]
                    ELSE reduceLoggers(config, Tail(keys),
                           [threw |-> FALSE,
                            refs |-> With(acc.refs, loggerKey, ref),
                            heap |-> Store(acc.heap, ref, wrapLogger(c.logger, loggerKey))])

\* generateLoggers(): the registry, or throws "Failed to generate loggers."
generateLoggers(config) ==
    LET v == validateLoggerConfig(config)
        built == reduceLoggers(config, config.order,
                               [threw |-> FALSE, refs |-> EmptyRegistry.refs, heap |-> <<>>])
    IN IF v.threw \/ built.threw
       THEN [threw |-> TRUE, registry |-> EmptyRegistry]
       ELSE [threw |-> FALSE, registry |-> [refs |-> built.refs, heap |-> built.heap]]

\* an initialisation that goes on with a console logger under "default"
startup_Fallback(config) ==
    LET g == generateLoggers(config)
    IN [proc |-> [state |-> "running", exitCode |-> 0, listening |-> FALSE],
        registry |-> IF g.threw
                     THEN [refs |-> [k \in {"default"} |-> 1],
                           heap |-> <<createLogger("default", "default", <<>>).logger>>]
                     ELSE g.registry]

\* try { loggers = generateLoggers() } catch { process.exit(1) }; export
\* default loggers
startup(config) ==
    LET g == generateLoggers(config)
    IN IF g.threw
       THEN [proc |-> [state |-> "exited", exitCode |-> 1, listening |-> FALSE],
             registry |-> EmptyRegistry]
       ELSE [proc |-> [state |-> "running", exitCode |-> 0, listening |-> FALSE],
             registry |-> g.registry]

\* the levels of pino, lowest first
levels == <<"trace", "debug", "info", "warn", "error", "fatal">>

\* pino.levels.labels[level]?.toUpperCase()
levelLabel(method) ==
    CASE method = "trace" -> "TRACE" [] method = "debug" -> "DEBUG"
      [] method = "info" -> "INFO" [] method = "warn" -> "WARN"
      [] method = "error" -> "ERROR" [] method = "fatal" -> "FATAL"

\* a method below the logger's level writes nothing
isLevelEnabled(level, method) ==
    \E i, j \in 1..Len(levels) : levels[i] = level /\ levels[j] = method /\ i <= j

\* mixin(_context, level): { type: LABEL }
mixin(method) == [type |-> levelLabel(method)]

\* mixinMergeStrategy(mergeObject, mixinObject): {...mergeObject, ...mixinObject}
mixinMergeStrategy(mergeObject, mixinObject) ==
    [k \in DOMAIN mergeObject \cup DOMAIN mixinObject |->
        IF k \in DOMAIN mixinObject THEN mixinObject[k] ELSE mergeObject[k]]

\* a redaction that removes the fields on the paths
Redacted_Remove(fields, option) ==
    [k \in DOMAIN fields \ {option.paths[i] : i \in 1..Len(option.paths)} |-> fields[k]]

\* redact: { paths, censor }: the value on a path is replaced by the censor
Redacted(fields, option) ==
    [k \in DOMAIN fields |->
        IF \E i \in 1..Len(option.paths) : option.paths[i] = k
        THEN option.censor ELSE fields[k]]

\* what the pino logger writes for one call of a severity method: the
\* merging object with the mixin merged in, redacted
write(logger, method, obj) ==
    [written |-> isLevelEnabled(logger.level, method),
     level |-> method,
     targets |-> logger.targets,
     fields |-> Redacted(mixinMergeStrategy(IF obj.t = "object" THEN obj.f ELSE EmptyObj,
                                            mixin(method)),
                         logger.redact)]

\* loggers[loggerKey][method](obj, msg, ...args) on the exported registry
callLogger(reg, loggerKey, method, sch, obj, msg, args) ==
    LET fn == reg.heap[reg.refs[loggerKey]].methods[method]
    IN IF fn.wrapped
       THEN wrapLoggerMethod(fn.loggerKey, fn.method, sch, obj, msg, args)
       ELSE [threw |-> FALSE, message |-> "",
             calls |-> <<SinkCall(fn.loggerKey, fn.method, obj, msg, args)>>]

(***************************************************************************)
(* Outcomes: the error classes of utils/error_util and ApiResponse.        *)
(***************************************************************************)
ErrorClasses == {"ApiError", "AuthError", "GitError"}

\* new ApiError(statusCode, message, error, data, logger) and its subclasses:
\* every instance carries statusCode, error, data and logger
ApiError(cls, statusCode, message, error, data, logger) ==
    [cls |-> cls, statusCode |-> statusCode, message |-> message, error |-> error,
     data |-> data, logger |-> logger]

\* new ApiResponse({statusCode, message, options: {logger, data}})
ApiResponse(statusCode, message, data, logger) ==
    [cls |-> "ApiResponse", statusCode |-> statusCode, message |-> message,
     data |-> data, logger |-> logger]

\* the Error thrown by validateFields: a plain Error, no statusCode, no data
PlainError(message) == [cls |-> "Error", message |-> message]

\* axios' AxiosError: an Error with the response received, if any; it has
\* no statusCode, data or logger property (logger reads as undefined)
AxiosError(message, response) ==
    [cls |-> "AxiosError", message |-> message, response |-> response,
     logger |-> NonObj("undefined")]

\* class CustomError implements NodeJS.ErrnoException: not an Error, no
\* statusCode, data or logger property
CustomError(message, code) ==
    [cls |-> "CustomError", message |-> message, code |-> code,
     logger |-> NonObj("undefined")]

\* x instanceof Error
InstanceOfError(x) == x.cls \in ErrorClasses \cup {"Error", "AxiosError"}

\* err.stack: the trace V8 records when an Error is constructed; a
\* CustomError is not constructed by Error and has none
stack(err) == IF InstanceOfError(err) THEN "stack" ELSE Undefined

\* own properties JSON.stringify leaves out of an Error instance (they are
\* not enumerable)
NonEnumerable == {"message", "stack"}

\* JSON.parse(JSON.stringify(v || {}))
JSONCopy(v) == IF Falsy(v) THEN Obj(EmptyObj) ELSE Obj(Rest(v.f, NonEnumerable))

(***************************************************************************)
(* The category lookup table the three correlators build.                  *)
(***************************************************************************)
\* enum loggerCategory and the table logCategory
loggerCategory ==
    [system |-> "systemLogger", authentication |-> "authLogger",
     validation |-> "validationLogger", usage |-> "usageLogger"]

\* a lookup that falls back to the usage logger
logCategory_Fallback(category, sch) ==
    IF category \in DOMAIN loggerCategory /\ loggerCategory[category] \in loggers(sch)
    THEN loggerCategory[category]
    ELSE "usageLogger"

\* logCategory[category]: the key of the registry logger, or Undefined when
\* the category is outside the table or the registry holds no such logger
logCategory(category, sch) ==
    IF category \in DOMAIN loggerCategory /\ loggerCategory[category] \in loggers(sch)
    THEN loggerCategory[category]
    ELSE Undefined

\* o[key], Undefined when o has no such key
Get(o, key) == IF key \in DOMAIN o THEN o[key] ELSE Undefined

\* a || b on strings (Undefined and "" are falsy)
OrElse(a, b) == IF a = Undefined \/ a = "" THEN b ELSE a

\* what a handler run did: threw/message, the arguments it passed to next,
\* the calls that reached the underlying pino methods, the responses sent,
\* and the object it was given as it is after the run
Run(obj, threw, message, nexts, calls, responses) ==
    [obj |-> obj, threw |-> threw, message |-> message, nexts |-> nexts,
     calls |-> calls, responses |-> responses]

(***************************************************************************)
(* error.middleware: errorLogger and errorHandler.                         *)
(***************************************************************************)
\* getLoggerMethod(category, isWarning): isWarning ? logger?.warn : logger?.error
getLoggerMethod(category, isWarning, sch) ==
    [key |-> logCategory(category, sch), method |-> IF isWarning THEN "warn" ELSE "error"]

\* errorLogger that forwards an error without logger, then clears and
\* forwards it a second time
errorLogger_ForwardsTwice(err, sch) ==
    IF Falsy(err.logger)
    THEN Run([err EXCEPT !.logger = NonObj("null")], FALSE, "",
             <<err, [err EXCEPT !.logger = NonObj("null")]>>, <<>>, <<>>)
    ELSE LET logger == err.logger.f
             loggerData == With(Rest(logger, {"category", "message"}), "error",
                                JSONCopy(err.error))
             logMethod == getLoggerMethod(Get(logger, "category"), err.statusCode = 400, sch)
             r == IF logMethod.key # Undefined
                  THEN wrapLoggerMethod(logMethod.key, logMethod.method, sch, Obj(loggerData),
                                        OrElse(Get(logger, "message"), err.message), <<>>)
                  ELSE [threw |-> FALSE, message |-> "", calls |-> <<>>]
             cleared == [err EXCEPT !.logger = NonObj("null")]
         IN IF r.threw
            THEN Run(err, TRUE, r.message, <<>>, <<>>, <<>>)
            ELSE Run(cleared, FALSE, "", <<cleared>>, r.calls, <<>>)

\* errorLogger with "err.logger = null; next(err)" moved before the log call
errorLogger_ClearsFirst(err, sch) ==
    IF Falsy(err.logger)
    THEN Run(err, FALSE, "", <<err>>, <<>>, <<>>)
    ELSE LET logger == err.logger.f
             loggerData == With(Rest(logger, {"category", "message"}), "error",
                                JSONCopy(err.error))
             logMethod == getLoggerMethod(Get(logger, "category"), err.statusCode = 400, sch)
             r == IF logMethod.key # Undefined
                  THEN wrapLoggerMethod(logMethod.key, logMethod.method, sch, Obj(loggerData),
                                        OrElse(Get(logger, "message"), err.message), <<>>)
                  ELSE [threw |-> FALSE, message |-> "", calls |-> <<>>]
             cleared == [err EXCEPT !.logger = NonObj("null")]
         IN Run(cleared, r.threw, r.message, <<cleared>>, r.calls, <<>>)

\* errorLogger without "err.logger = null"
errorLogger_KeepsLogger(err, sch) ==
    IF Falsy(err.logger)
    THEN Run(err, FALSE, "", <<err>>, <<>>, <<>>)
    ELSE LET logger == err.logger.f
             loggerData == With(Rest(logger, {"category", "message"}), "error",
                                JSONCopy(err.error))
             logMethod == getLoggerMethod(Get(logger, "category"), err.statusCode = 400, sch)
             r == IF logMethod.key # Undefined
                  THEN wrapLoggerMethod(logMethod.key, logMethod.method, sch, Obj(loggerData),
                                        OrElse(Get(logger, "message"), err.message), <<>>)
                  ELSE [threw |-> FALSE, message |-> "", calls |-> <<>>]
         IN IF r.threw
            THEN Run(err, TRUE, r.message, <<>>, <<>>, <<>>)
            ELSE Run(err, FALSE, "", <<err>>, r.calls, <<>>)

errorLogger(err, sch) ==
    IF Falsy(err.logger)
    THEN Run(err, FALSE, "", <<err>>, <<>>, <<>>)
    ELSE LET logger == err.logger.f
             category == Get(logger, "category")
             loggerMessage == Get(logger, "message")
             isWarning == err.statusCode = 400
             message == OrElse(loggerMessage, err.message)
             loggerData == With(Rest(logger, {"category", "message"}), "error",
                                JSONCopy(err.error))
             logMethod == getLoggerMethod(category, isWarning, sch)
             r == IF logMethod.key # Undefined
                  THEN wrapLoggerMethod(logMethod.key, logMethod.method, sch,
                                        Obj(loggerData), message, <<>>)
                  ELSE [threw |-> FALSE, message |-> "", calls |-> <<>>]
             cleared == [err EXCEPT !.logger = NonObj("null")]
         IN IF r.threw
            THEN Run(err, TRUE, r.message, <<>>, <<>>, <<>>)
            ELSE Run(cleared, FALSE, "", <<cleared>>, r.calls, <<>>)

\* getStatusCode(err): err.statusCode || 500
\* err instanceof AxiosError ? err.response?.status || 500 : err.statusCode || 500
getStatusCode(err) ==
    IF err.cls = "AxiosError"
    THEN IF ~Falsy(err.response) /\ err.response.f.status # 0
         THEN err.response.f.status ELSE 500
    ELSE IF "statusCode" \in DOMAIN err /\ err.statusCode # 0 THEN err.statusCode ELSE 500

DefaultMessage == "An unexpected error occurred"

\* res.status(statusCode).json({error: true, message, data, stack})
Envelope(err) ==
    [status |-> getStatusCode(err),
     body |-> [error |-> TRUE,
               message |-> OrElse(err.message, DefaultMessage),
               data |-> IF "data" \in DOMAIN err THEN err.data ELSE NonObj("null"),
               stack |-> IF host.NODE_ENV = "development" THEN stack(err) ELSE Undefined]]

\* handleGitError: err.statusCode = 500
handleGitError(err) == [err EXCEPT !.statusCode = 500]

BusyMessage == "Repository folder is busy or locked"

\* handleCustomError: err.message = "Repository folder is busy or locked";
\* the text handleFsError returns is dropped
handleCustomError(err) == [err EXCEPT !.message = BusyMessage]

errorHandler(err) ==
    LET handled == IF err.cls = "GitError" THEN handleGitError(err)
                   ELSE IF err.cls = "CustomError" THEN handleCustomError(err)
                   ELSE err
    IN Run(handled, FALSE, "", <<>>, <<>>, <<Envelope(handled)>>)

(***************************************************************************)
(* responseError.middleware and logger.middleware.                         *)
(***************************************************************************)
responseErrorHandler(apiResult) ==
    IF apiResult.cls = "ApiResponse"
    THEN Run(apiResult, FALSE, "", <<>>, <<>>,
             <<[status |-> apiResult.statusCode,
                body |-> [message |-> apiResult.message, data |-> apiResult.data]]>>)
    ELSE IF InstanceOfError(apiResult)
    THEN Run(apiResult, FALSE, "", <<>>, <<>>, <<Envelope(apiResult)>>)
    ELSE Run(apiResult, FALSE, "", <<>>, <<>>, <<>>)

\* the tiers with the boundary 400 on the success side
status_Off(statusCode) ==
    IF statusCode <= 400 THEN "success"
    ELSE IF statusCode > 400 /\ statusCode < 500 THEN "warning"
    ELSE "error"

\* the severity tier loggerMiddleware derives from statusCode
status(statusCode) ==
    IF statusCode < 400 THEN "success"
    ELSE IF statusCode >= 400 /\ statusCode < 500 THEN "warning"
    ELSE "error"

\* centralizedLogger({category, details, message, status}): the switch
\* over status and logger?.<method>?.(details, message)
centralizedLogger(category, details, message, st, sch) ==
    LET logger == logCategory(category, sch)
        method == CASE st = "success" -> "info"
                    [] st = "warning" -> "warn"
                    [] st = "error" -> "error"
    IN IF logger # Undefined
       THEN wrapLoggerMethod(logger, method, sch, details, message, <<>>)
       ELSE [threw |-> FALSE, message |-> "", calls |-> <<>>]

\* loggerMiddleware that dispatches the log call first and forwards afterwards
loggerMiddleware_LogFirst(apiResult, sch) ==
    IF Falsy(apiResult.logger)
    THEN LET forwarded == responseErrorHandler(apiResult)
         IN Run(forwarded.obj, FALSE, "", <<apiResult>>, <<>>, forwarded.responses)
    ELSE LET logger == apiResult.logger.f
             r == centralizedLogger(Get(logger, "category"),
                                    Obj(Rest(logger, {"category"})),
                                    apiResult.message, status(apiResult.statusCode), sch)
             forwarded == responseErrorHandler(apiResult)
         IN IF r.threw
            THEN Run(apiResult, TRUE, r.message, <<>>, <<>>, <<>>)
            ELSE Run(forwarded.obj, FALSE, "", <<apiResult>>, r.calls, forwarded.responses)

\* loggerMiddleware with the log call in a try/catch that drops the error
loggerMiddleware_Swallows(apiResult, sch) ==
    LET forwarded == responseErrorHandler(apiResult)
        result == forwarded.obj
    IN IF Falsy(result.logger)
       THEN Run(result, FALSE, "", <<apiResult>>, <<>>, forwarded.responses)
       ELSE LET logger == result.logger.f
                r == centralizedLogger(Get(logger, "category"),
                                       Obj(Rest(logger, {"category"})),
                                       result.message, status(result.statusCode), sch)
            IN Run(result, FALSE, "", <<apiResult>>, r.calls, forwarded.responses)

\* loggerMiddleware(apiResult, req, res, next), next being the rest of the
\* chain (responseErrorHandler)
loggerMiddleware(apiResult, sch) ==
    LET forwarded == responseErrorHandler(apiResult)
        result == forwarded.obj
    IN IF Falsy(result.logger)
       THEN Run(result, FALSE, "", <<apiResult>>, <<>>, forwarded.responses)
       ELSE LET logger == result.logger.f
                r == centralizedLogger(Get(logger, "category"),
                                       Obj(Rest(logger, {"category"})),
                                       result.message, status(result.statusCode), sch)
            IN Run(result, r.threw, r.message, <<apiResult>>, r.calls, forwarded.responses)

(***************************************************************************)
(* response.middleware: the res.send wrapper responseLogger installs.      *)
(***************************************************************************)
\* getResponseLoggerInfoMethod(category): logCategory[category]?.info
getResponseLoggerInfoMethod(category, sch) ==
    [key |-> logCategory(category, sch), method |-> "info"]

\* res.send = function (body) {...}; responses: the bodies handed to
\* originalSend
send(r, body, sch) ==
    IF ~Falsy(r.logger)
    THEN LET logger == r.logger.f
             loggerMessage == Get(logger, "message")
             loggerData == Rest(logger, {"category", "message"})
             message == OrElse(loggerMessage,
                               "Response logged for status: " \o ToString(r.statusCode))
             logMethod == getResponseLoggerInfoMethod(Get(logger, "category"), sch)
             payload == With(With(loggerData, "statusCode", r.statusCode), "response", body)
             c == IF logMethod.key # Undefined
                  THEN wrapLoggerMethod(logMethod.key, logMethod.method, sch,
                                        Obj(payload), message, <<>>)
                  ELSE [threw |-> FALSE, message |-> "", calls |-> <<>>]
             cleared == [r EXCEPT !.logger = NonObj("null")]
         IN IF c.threw
            THEN Run(r, TRUE, c.message, <<>>, <<>>, <<>>)
            ELSE Run(cleared, FALSE, "", <<>>, c.calls, <<body>>)
    ELSE Run(r, FALSE, "", <<>>, <<>>, <<body>>)

(***************************************************************************)
(* Inputs: what routes attach and pass on.                                 *)
(***************************************************************************)
\* categories a route may name: two of the table ("system" has no logger
\* under SchemaGap) and one outside it
MetaCategories == {"usage", "system", "billing"}

MetaValue(k, category, message) ==
    CASE k = "category" -> category
      [] k = "code" -> "X"
      [] k = "context" -> "Y"
      [] k = "reason" -> "Z"
      [] k = "message" -> message
      [] k = "token" -> "abc"
      [] k = "type" -> "T"
      [] k = "password" -> 1234

\* LoggerData objects: category, optional code and context, optional
\* message (absent, empty or set)
Metadata ==
    { [k \in {"category"} \cup S \cup (IF m = Undefined THEN {} ELSE {"message"})
            |-> MetaValue(k, c, m)] :
        S \in SUBSET {"code", "context"}, c \in MetaCategories, m \in {Undefined, "", "lm"} }

\* the logger slot of an outcome or of the response: null or metadata
LoggerSlots == {NonObj("null")} \cup {Obj(m) : m \in Metadata}

StatusCodes == {199, 399, 400, 401, 404, 499, 500}

\* err.error: null, or a nested ValidationError
Causes ==
    {NonObj("null"),
     Obj([name |-> "ValidationError", statusCode |-> 400, message |-> "Validation failed",
          data |-> Null])}

\* err.data: null, or an object
Datas == {NonObj("null"), Obj([id |-> "7"])}

\* errors with the edge values of getStatusCode and of the envelope: status
\* 0, an empty message, data set; AxiosErrors with and without a response;
\* a CustomError
EdgeErrors ==
    { ApiError("ApiError", sc, msg, NonObj("null"), data, NonObj("null")) :
        sc \in {0, 404}, msg \in {"", "boom"}, data \in Datas }
    \cup { ApiError("GitError", sc, "boom", NonObj("null"), NonObj("null"), NonObj("null")) :
             sc \in {0, 404} }
    \cup { AxiosError("timeout", r) :
             r \in {NonObj("undefined"), Obj([status |-> 404]), Obj([status |-> 0])} }
    \cup { CustomError("EBUSY: resource busy or locked", "EBUSY") }

Errors ==
    { ApiError(cls, sc, "boom", cause, NonObj("null"), lg) :
        cls \in ErrorClasses, sc \in StatusCodes, cause \in Causes, lg \in LoggerSlots }
    \cup EdgeErrors

Responses == { ApiResponse(sc, "done", NonObj("null"), lg) : sc \in StatusCodes, lg \in LoggerSlots }

Outcomes == Errors \cup Responses

Bodies == {"Hello"}

Handlers == {"errorLogger", "loggerMiddleware", "send", "log", "registry"}

Total(p) == p["errorLogger"] + p["loggerMiddleware"] + p["send"] + p["log"]

NoRun == [op |-> "none", input |-> NoObj, run |-> Run(NoObj, FALSE, "", <<>>, <<>>, <<>>)]

\* the sink calls of one handler, in order
RECURSIVE By(_, _)
By(calls, handler) ==
    IF calls = <<>> THEN <<>>
    ELSE IF Head(calls).by = handler THEN <<Head(calls)>> \o By(Tail(calls), handler)
    ELSE By(Tail(calls), handler)

Tagged(calls, handler) == [i \in 1..Len(calls) |-> [by |-> handler, call |-> calls[i]]]

(***************************************************************************)
(* The state machine of one request.                                       *)
(***************************************************************************)
\* process.env.NODE_ENV: unset, or one of the usual modes
Modes == {Undefined, "development", "production"}

\* instants the system clock shows (UTC): the last and the first instant of
\* a day, and two instants of the days around
Clocks ==
    {[date |-> "2023-12-31", time |-> "23:59:59.999Z"],
     [date |-> "2024-01-01", time |-> "00:00:00.000Z"],
     [date |-> "2024-01-01", time |-> "23:59:59.999Z"],
     [date |-> "2024-01-02", time |-> "12:00:00.000Z"]}

\* the instant at which the registry of a request-serving process was built
StartClock == [date |-> "2024-01-01", time |-> "00:00:00.000Z"]

TypeOK ==
    /\ schema \in Schemas
    /\ host \in [NODE_ENV : Modes, now : Clocks]
    /\ outcome.cls \in ErrorClasses \cup {"AxiosError", "CustomError", "ApiResponse", "none"}
    /\ res.logger \in LoggerSlots \cup {NonObj("undefined")}
    /\ Len(sink) <= Total(passes)
    /\ passes \in [Handlers -> 0..MaxPasses]

Init ==
    /\ schema \in Schemas
    /\ host \in [NODE_ENV : Modes, now : {StartClock}]
    /\ proc = startup(schema).proc
    /\ registry = startup(schema).registry
    /\ outcome = NoObj
    /\ res = [logger |-> NonObj("undefined"), statusCode |-> 200, wrapped |-> FALSE,
              sent |-> <<>>]
    /\ sink = <<>>
    /\ passes = [h \in Handlers |-> 0]
    /\ last = NoRun

Fresh == outcome = NoObj /\ res.logger = NonObj("undefined") /\ Total(passes) = 0

\* app.use(responseLogger): res.send is replaced by the wrapper, next()
ResponseLogger ==
    /\ Fresh /\ ~res.wrapped
    /\ res' = [res EXCEPT !.wrapped = TRUE]
    /\ UNCHANGED <<schema, proc, host, registry, outcome, sink, passes, last>>

\* a route: res.logger = {...}; res.status(sc)
RouteSetLogger ==
    /\ Fresh
    /\ \E lg \in LoggerSlots, sc \in StatusCodes :
          res' = [res EXCEPT !.logger = lg, !.statusCode = sc]
    /\ UNCHANGED <<schema, proc, host, registry, outcome, sink, passes, last>>

\* a route: next(new ApiError(...)) or next(new ApiResponse(...))
RouteNext ==
    /\ Fresh /\ ~res.wrapped
    /\ outcome' \in Outcomes
    /\ UNCHANGED <<schema, proc, host, registry, res, sink, passes, last>>

\* res.send(body): the wrapper when responseLogger installed it, else the
\* original send
Send ==
    /\ outcome = NoObj /\ Total(passes) < MaxPasses
    /\ \E body \in Bodies :
         LET r == IF res.wrapped THEN send(res, body, schema)
                  ELSE Run(res, FALSE, "", <<>>, <<>>, <<body>>)
         IN /\ res' = [r.obj EXCEPT !.sent = @ \o r.responses]
            /\ sink' = sink \o Tagged(r.calls, "send")
            /\ last' = [op |-> "send", input |-> res, run |-> r]
    /\ passes' = [passes EXCEPT !["send"] = @ + 1]
    /\ UNCHANGED <<schema, proc, host, registry, outcome>>

\* app.use(errorLogger); app.use(errorHandler): errorLogger runs on the
\* error; next(err) runs errorHandler on it; an Error thrown by errorLogger
\* is handed by express to the next error middleware, errorHandler, in
\* place of err
ErrorChain ==
    /\ InstanceOfError(outcome) \/ outcome.cls = "CustomError"
    /\ passes["loggerMiddleware"] = 0
    /\ Total(passes) < MaxPasses
    /\ LET r == errorLogger(outcome, schema)
           h == IF r.threw THEN errorHandler(PlainError(r.message))
                ELSE errorHandler(r.nexts[1])
       IN /\ outcome' = IF r.threw THEN r.obj ELSE h.obj
          /\ sink' = sink \o Tagged(r.calls, "errorLogger")
          /\ last' = [op |-> "errorLogger", input |-> outcome,
                      run |-> [r EXCEPT !.responses = h.responses]]
    /\ passes' = [passes EXCEPT !["errorLogger"] = @ + 1]
    /\ UNCHANGED <<schema, proc, host, registry, res>>

\* app.use(loggerMiddleware); app.use(responseErrorHandler)
LoggerChain ==
    /\ outcome # NoObj /\ passes["errorLogger"] = 0
    /\ Total(passes) < MaxPasses
    /\ LET r == loggerMiddleware(outcome, schema)
       IN /\ outcome' = r.obj
          /\ sink' = sink \o Tagged(r.calls, "loggerMiddleware")
          /\ last' = [op |-> "loggerMiddleware", input |-> outcome, run |-> r]
    /\ passes' = [passes EXCEPT !["loggerMiddleware"] = @ + 1]
    /\ UNCHANGED <<schema, proc, host, registry, res>>

Next ==
    \/ ResponseLogger
    \/ RouteSetLogger
    \/ RouteNext
    \/ Send
    \/ ErrorChain
    \/ LoggerChain

Spec == Init /\ [][Next]_vars

(***************************************************************************)
(* Direct calls of the wrapped logger methods (Loggers.usageLogger.info(   *)
(* obj, msg, ...args)), as routes and process handlers make them.          *)
(***************************************************************************)
\* first arguments: objects over code, context and reason, objects that
\* also hold a token, a password (a number) or a type, and values that are
\* not objects
LogObjects ==
    { Obj([k \in S |-> MetaValue(k, "", "")]) :
        S \in {{}, {"code"}, {"context"}, {"code", "context"}, {"reason"},
               {"code", "context", "reason"}, {"code", "context", "password"},
               {"code", "context", "token", "type"}, {"token"}} }
    \cup {NonObj("null"), NonObj("string"), NonObj("number")}

\* (msg, ...args)
LogArgs == {<<"m", <<>>>>, <<"m2", <<"a">>>>}

\* calls drawn from objects and argss, counted under counter up to limit
LogCallOf(objects, argss, counter, limit) ==
    /\ passes[counter] < limit
    /\ \E key \in DOMAIN registry.refs, method \in Methods, obj \in objects, ma \in argss :
         LET r == callLogger(registry, key, method, schema, obj, ma[1], ma[2])
         IN /\ sink' = sink \o Tagged(r.calls, "log")
            /\ last' = [op |-> "log",
                        input |-> SinkCall(key, method, obj, ma[1], ma[2]),
                        run |-> Run(NoObj, r.threw, r.message, <<>>, r.calls, <<>>)]
    /\ passes' = [passes EXCEPT ![counter] = @ + 1]
    /\ UNCHANGED <<schema, proc, host, registry, outcome, res>>

LogCall == LogCallOf(LogObjects, LogArgs, "log", MaxLogCalls)

NextLog == LogCall

\* the direct calls do not read the operating mode: one mode
InitLog == Init /\ host.NODE_ENV = "production"

SpecLog == InitLog /\ [][NextLog]_vars

(***************************************************************************)
(* Operations on the exported logger objects: calls of their methods,      *)
(* child bindings (Loggers.systemLogger.child({module})) and assignments   *)
(* to their properties.                                                    *)
(***************************************************************************)
\* a complete payload and one that lacks every required field but code
IsoObjects ==
    {Obj([k \in {"code", "context", "reason", "token"} |-> MetaValue(k, "", "")]),
     Obj([k \in {"code"} |-> MetaValue(k, "", "")])}

LoggerCall == LogCallOf(IsoObjects, {<<"m", <<>>>>}, "registry", MaxRegistryOps)

\* loggers[key].child({module: ...}): a new object with the bindings; the
\* severity methods of the child are the wrapped ones it inherits or the
\* ones pino sets on it
ChildBind ==
    /\ passes["registry"] < MaxRegistryOps
    /\ \E key \in DOMAIN registry.refs, inherits \in BOOLEAN :
         LET parent == registry.heap[registry.refs[key]]
             child == [parent EXCEPT !.bindings = {"module"},
                                     !.methods = IF inherits THEN parent.methods
                                                 ELSE pinoMethods(parent.key)]
         IN /\ registry' = [registry EXCEPT
                              !.heap = Store(registry.heap, NewRef(registry.heap), child)]
            /\ last' = [op |-> "child", input |-> [key |-> key, inherits |-> inherits],
                        run |-> NoRun.run]
    /\ passes' = [passes EXCEPT !["registry"] = @ + 1]
    /\ UNCHANGED <<schema, proc, host, outcome, res, sink>>

\* loggers[key][property] = value: a severity method is replaced by a
\* function that does not validate, or a new property is set
Assign ==
    /\ passes["registry"] < MaxRegistryOps
    /\ \E key \in DOMAIN registry.refs, property \in {"info", "tag"} :
         LET ref == registry.refs[key]
         IN /\ registry' = [registry EXCEPT !.heap[ref] =
                               IF property \in Methods
                               THEN [@ EXCEPT !.methods[property].wrapped = FALSE]
                               ELSE [@ EXCEPT !.props = @ \cup {property}]]
            /\ last' = [op |-> "assign", input |-> [key |-> key, property |-> property],
                        run |-> NoRun.run]
    /\ passes' = [passes EXCEPT !["registry"] = @ + 1]
    /\ UNCHANGED <<schema, proc, host, outcome, res, sink>>

InitIso == Init /\ schema = SchemaFull /\ host.NODE_ENV = "production"

NextIso ==
    \/ LoggerCall
    \/ ChildBind
    \/ Assign

SpecIso == InitIso /\ [][NextIso]_vars

(***************************************************************************)
(* Start of the process: the module is loaded with whatever the JSON file  *)
(* holds, the registry is built or the process exits, and the application  *)
(* listens.                                                                *)
(***************************************************************************)
\* entries as a JSON file can give them: well formed, without a category,
\* with a category that is not a string, not an object at all, with a
\* required-field list that is not an array of strings, with a redaction
\* path pino cannot parse
RawEntries ==
    LET good == EntryOf("Usage", [NoFields EXCEPT !["info"] = <<"code">>], <<"token">>)
    IN {good,
        EntryOf("System", NoFields, <<>>),
        EntryOf("", NoFields, <<>>),
        [good EXCEPT !.categoryType = "undefined", !.category = Undefined],
        [good EXCEPT !.categoryType = "number", !.category = "5"],
        [good EXCEPT !.t = "string"],
        [good EXCEPT !.t = "null"],
        [good EXCEPT !.customRequiredShape = "string"],
        [good EXCEPT !.customRequiredShape = "mixed"],
        [good EXCEPT !.redactFields = <<"token", MalformedPath>>]}

\* the keys of loggers: none, one, or two of which the second may be ""
RawOrders == {<<>>, <<"usageLogger">>, <<"usageLogger", "systemLogger">>, <<"usageLogger", "">>}

\* the parsed file: an object with loggers, an object without, or a value
\* that is not an object
RawConfigs ==
    UNION { { [ConfigOf(NoFields, redact, order, entries)
                  EXCEPT !.common.requiredShape = shape] :
                redact \in {<<>>, <<"password">>},
                shape \in {"arrays", "string", "mixed"},
                entries \in [{order[i] : i \in 1..Len(order)} -> RawEntries] } :
            order \in RawOrders }
    \cup { [ConfigOf(NoFields, <<>>, <<>>, EmptyObj) EXCEPT !.hasLoggers = FALSE] }
    \cup { [ConfigOf(NoFields, <<>>, <<>>, EmptyObj) EXCEPT !.top = top] :
             top \in {"array", "null", "string"} }

InitLoad ==
    /\ schema \in RawConfigs
    /\ host \in [NODE_ENV : {"production"}, now : Clocks]
    /\ proc = [state |-> "loading", exitCode |-> 0, listening |-> FALSE]
    /\ registry = EmptyRegistry
    /\ outcome = NoObj
    /\ res = [logger |-> NonObj("undefined"), statusCode |-> 200, wrapped |-> FALSE,
              sent |-> <<>>]
    /\ sink = <<>>
    /\ passes = [h \in Handlers |-> 0]
    /\ last = NoRun

\* import Loggers from "./utils/pino_util": the module builds the registry
\* or ends the process
Startup ==
    /\ proc.state = "loading"
    /\ proc' = startup(schema).proc
    /\ registry' = startup(schema).registry
    /\ UNCHANGED <<schema, host, outcome, res, sink, passes, last>>

\* app.listen(port): reached only by a process that is still running
Listen ==
    /\ proc.state = "running" /\ ~proc.listening
    /\ proc' = [proc EXCEPT !.listening = TRUE]
    /\ UNCHANGED <<schema, host, registry, outcome, res, sink, passes, last>>

NextLoad ==
    \/ Startup
    \/ Listen

SpecLoad == InitLoad /\ [][NextLoad]_vars

(***************************************************************************)
(* Vocabulary of the properties, stated on the schema itself.              *)
(***************************************************************************)
Range(list) == {list[i] : i \in 1..Len(list)}

\* R = common.requiredFields[method] \cup loggers[key].customRequiredFields[method]
RequiredSet(key, method) ==
    Range(schema.common.requiredFields[method])
    \cup (IF key \in DOMAIN schema.loggers
          THEN Range(schema.loggers[key].customRequiredFields[method])
          ELSE {})

\* keys(P): the own keys of an object, none for any other value
Keys(v) == IF v.t = "object" THEN DOMAIN v.f ELSE {}

\* the outcome or response carries metadata
Attached(o) == o.logger.t = "object"

MetaOf(o) == o.logger.f

\* a logger is registered for the category
Registered(category) ==
    \/ category = "system" /\ "systemLogger" \in DOMAIN schema.loggers
    \/ category = "authentication" /\ "authLogger" \in DOMAIN schema.loggers
    \/ category = "validation" /\ "validationLogger" \in DOMAIN schema.loggers
    \/ category = "usage" /\ "usageLogger" \in DOMAIN schema.loggers

Correlators == {"errorLogger", "loggerMiddleware"}

\* the calls the handler made of the underlying logger methods, all runs
Emitted(handler) == Len(By(sink, handler))

\* the handlers that look a logger up by the metadata's category
Lookups == {"errorLogger", "loggerMiddleware", "send"}

\* the registry key the lookup table gives a category
KeyOf(category) ==
    CASE category = "system" -> "systemLogger"
      [] category = "authentication" -> "authLogger"
      [] category = "validation" -> "validationLogger"
      [] category = "usage" -> "usageLogger"
      [] OTHER -> Undefined

\* the exported logger under a key
LoggerAt(key) == registry.heap[registry.refs[key]]

\* the record written for a call that reached the underlying method
Written(call) == write(LoggerAt(call.key), call.method, call.obj)

\* the redaction set of an entry: common.redactFields and its own
RedactSet(key) ==
    Range(schema.common.redactFields) \cup Range(schema.loggers[key].redactFields)

(***************************************************************************)
(* C1. At-most-once for the correlators that clear the metadata: however   *)
(* often the same error is passed through errorLogger, or res.send is      *)
(* called on the same response, at most one call reaches a category        *)
(* logger; a pass on metadata with a registered category and a valid       *)
(* payload makes exactly one call and leaves the slot null, and a pass     *)
(* that finds the slot empty emits nothing.                                *)
(***************************************************************************)
C1_Pass(handler, holder) ==
    last.op = handler =>
        /\ Attached(last.input) /\ Registered(MetaOf(last.input)["category"])
             /\ ~last.run.threw
           => /\ Len(last.run.calls) = 1
              /\ holder.logger = NonObj("null")
              /\ Emitted(handler) = 1
        /\ ~Attached(last.input) => last.run.calls = <<>>

C1_AtMostOnce ==
    /\ Emitted("errorLogger") <= 1
    /\ Emitted("send") <= 1
    /\ C1_Pass("errorLogger", outcome)
    /\ res.wrapped => C1_Pass("send", res)

\* the same error went through errorLogger more than once and was logged once
C1_Witness ==
    /\ passes["errorLogger"] > 1
    /\ Emitted("errorLogger") = 1
    /\ last.op = "errorLogger" /\ ~Attached(last.input)

\* res.send was called more than once on a response that was logged once
C1_WitnessSend ==
    /\ passes["send"] > 1
    /\ Emitted("send") = 1
    /\ Len(res.sent) = passes["send"]

(***************************************************************************)
(* C2. loggerMiddleware clears the metadata after dispatch: after it has   *)
(* processed an outcome whose logger slot is set, the slot is cleared, and *)
(* however often it runs on the same outcome it emits at most one record.  *)
(***************************************************************************)
C2_LoggerMiddlewareClears ==
    /\ last.op = "loggerMiddleware" /\ Attached(last.input) => ~Attached(outcome)
    /\ Emitted("loggerMiddleware") <= 1

(***************************************************************************)
(* C3. The severity mapping of loggerMiddleware is total and               *)
(* deterministic: for an outcome with metadata whose log call is made,     *)
(* exactly one of info, warn, error is called: info below 400, warn from   *)
(* 400 to 499, error from 500 (199 -> info, 400, 404, 499 -> warn,         *)
(* 500 -> error).                                                          *)
(***************************************************************************)
Tier(statusCode) ==
    CASE statusCode \div 100 <= 3 -> "info"
      [] statusCode \div 100 = 4 -> "warn"
      [] OTHER -> "error"

C3_SeverityMapping ==
    last.op = "loggerMiddleware" =>
        LET sc == last.input.statusCode
            calls == last.run.calls
        IN /\ Len(calls) <= 1
           /\ Attached(last.input) /\ Registered(MetaOf(last.input)["category"])
                /\ ~last.run.threw
              => /\ Len(calls) = 1
                 /\ calls[1].method = Tier(sc)
                 /\ sc = 199 => calls[1].method = "info"
                 /\ sc \in {400, 404, 499} => calls[1].method = "warn"
                 /\ sc = 500 => calls[1].method = "error"

\* a 400 outcome was logged by loggerMiddleware
C3_Witness ==
    /\ last.op = "loggerMiddleware"
    /\ Len(last.run.calls) = 1
    /\ last.input.statusCode = 400

(***************************************************************************)
(* C4. Domain errors of every kind passed through errorLogger are logged   *)
(* by the severity-tier rule: warn for a statusCode from 400 to 499 (401,  *)
(* 404), error from 500.                                                   *)
(***************************************************************************)
C4_ErrorLoggerTier ==
    last.op = "errorLogger" =>
        \A i \in 1..Len(last.run.calls) :
            LET sc == last.input.statusCode
            IN /\ sc >= 400 /\ sc < 500 => last.run.calls[i].method = "warn"
               /\ sc >= 500 => last.run.calls[i].method = "error"

C5_WitnessNonObject ==
    last.op = "log" /\ ~last.run.threw /\ last.input.obj.t = "null"

(***************************************************************************)
(* C6. In every call of a wrapped logger method validation runs before     *)
(* the underlying method: a call that fails validation never reaches the   *)
(* underlying method and throws to its caller; a call that passes reaches  *)
(* it exactly once, with the same payload, message and extra arguments.    *)
(***************************************************************************)
C6_ValidateBeforeSink ==
    last.op = "log" =>
        LET fails == ~(RequiredSet(last.input.key, last.input.method)
                         \subseteq Keys(last.input.obj))
        IN /\ Len(sink) <= passes["log"]
           /\ fails =>
                 /\ last.run.threw
                 /\ last.run.message # ""
                 /\ last.run.calls = <<>>
                 /\ Len(sink) < passes["log"]
           /\ ~fails =>
                 /\ ~last.run.threw
                 /\ last.run.calls = <<last.input>>
                 /\ Len(sink) > 0
                 /\ sink[Len(sink)] = [by |-> "log", call |-> last.input]

\* a call with extra arguments was rejected by validation
C6_Witness ==
    last.op = "log" /\ last.run.threw /\ last.input.args # <<>> /\ sink = <<>>

\* a call with extra arguments reached the underlying method
C6_WitnessAccepted ==
    last.op = "log" /\ ~last.run.threw /\ last.input.args # <<>> /\ Len(sink) = 1

(***************************************************************************)
(* C7. When the field validator rejects the payload built from an          *)
(* outcome's metadata (metadata lacking a required field), the validation  *)
(* error propagates out of errorLogger and loggerMiddleware: the run       *)
(* throws it, and does not complete as if the record had been logged.      *)
(***************************************************************************)
\* fields the schema requires of every severity a correlator can select
\* and that the correlators take from the metadata alone
RequiredOfMetadata ==
    { f \in {"code", "context", "reason"} :
        \A m \in {"info", "warn", "error"} :
            f \in Range(schema.common.requiredFields[m]) }

C7_RejectionPropagates ==
    last.op \in Correlators /\ Attached(last.input) =>
        LET meta == MetaOf(last.input)
        IN Registered(meta["category"])
             /\ RequiredOfMetadata \ DOMAIN meta # {}
           => /\ last.run.threw
              /\ last.run.calls = <<>>
              /\ last.run.message # ""

\* errorLogger threw the validation error of metadata without a code
C7_Witness ==
    /\ last.op = "errorLogger" /\ last.run.threw
    /\ Attached(last.input) /\ "code" \notin DOMAIN MetaOf(last.input)

\* loggerMiddleware threw the validation error of metadata without a code
C7_WitnessLoggerMiddleware ==
    /\ last.op = "loggerMiddleware" /\ last.run.threw
    /\ Attached(last.input) /\ "code" \notin DOMAIN MetaOf(last.input)

(***************************************************************************)
(* C8. Every domain error forwarded into the error chain (errorLogger then *)
(* errorHandler, or loggerMiddleware then responseErrorHandler) receives   *)
(* exactly one error-envelope response carrying that error's status code   *)
(* and message, whether the log call succeeds, is skipped or is rejected.  *)
(* Stated for the kinds whose status errorHandler does not replace (a      *)
(* GitError is answered with 500 by handleGitError).                       *)
(***************************************************************************)
C8_ErrorAnswered ==
    last.op \in Correlators /\ InstanceOfError(last.input)
        /\ last.input.cls # "GitError"
    => /\ Len(last.run.responses) = 1
       /\ last.run.responses[1].status = getStatusCode(last.input)
       /\ last.run.responses[1].body.error = TRUE
       /\ last.run.responses[1].body.message = OrElse(last.input.message, DefaultMessage)

(***************************************************************************)
(* C9. The payload a correlator passes to the severity method consists of  *)
(* exactly the metadata fields other than category and message: no field   *)
(* added, none of the others dropped, and never a message field.           *)
(***************************************************************************)
C9_PayloadIsMetadata ==
    last.op \in Correlators =>
        \A i \in 1..Len(last.run.calls) :
            /\ last.run.calls[i].obj = Obj(Rest(MetaOf(last.input), {"category", "message"}))
            /\ "message" \notin Keys(last.run.calls[i].obj)

(***************************************************************************)
(* C10. When the metadata's category has no registered logger (a category  *)
(* outside the table, or a table entry whose logger is undefined) the      *)
(* correlator emits nothing and raises no error, the outcome is still      *)
(* forwarded to the next handler and answered, and errorLogger still       *)
(* clears the metadata.                                                    *)
(***************************************************************************)
C10_UnregisteredSkipped ==
    last.op \in Correlators /\ Attached(last.input)
        /\ ~Registered(MetaOf(last.input)["category"])
    => /\ last.run.calls = <<>>
       /\ ~last.run.threw
       /\ Len(last.run.nexts) = 1
       /\ Rest(last.run.nexts[1], {"logger"}) = Rest(last.input, {"logger"})
       /\ Len(last.run.responses) = 1
       /\ sink = <<>>
       /\ last.op = "errorLogger" => outcome.logger = NonObj("null")

\* errorLogger skipped an error whose category is in the table but has no
\* logger in the registry
C10_Witness ==
    /\ last.op = "errorLogger" /\ Attached(last.input)
    /\ MetaOf(last.input)["category"] = "system"
    /\ "systemLogger" \notin DOMAIN schema.loggers
    /\ outcome.logger = NonObj("null")

\* loggerMiddleware skipped an outcome whose category is outside the table
C10_WitnessOutside ==
    /\ last.op = "loggerMiddleware" /\ Attached(last.input)
    /\ MetaOf(last.input)["category"] = "billing"
    /\ Len(last.run.responses) = 1

(***************************************************************************)
(* C11. Lookup by category agrees with the Schema: for every Schema entry  *)
(* with category c the lookup of c returns the logger built from that      *)
(* entry, and the lookup returns undefined exactly when no Schema entry    *)
(* has category c.                                                         *)
(***************************************************************************)
\* a handler looked a logger up for the metadata it was given (res.send
\* does so once responseLogger has installed the wrapper)
LookedUp ==
    /\ last.op \in Lookups /\ Attached(last.input)
    /\ last.op = "send" => last.input.wrapped

\* the lookup found a logger: the run called it (the call was rejected or
\* reached the underlying method)
Found == last.run.threw \/ last.run.calls # <<>>

\* as claimed: found exactly when an entry declares the category, and the
\* logger is the one of such an entry
C11_LookupByCategory ==
    LookedUp =>
        LET c == MetaOf(last.input)["category"]
            declaring == {k \in DOMAIN schema.loggers : schema.loggers[k].category = c}
        IN /\ Found <=> declaring # {}
           /\ \A i \in 1..Len(last.run.calls) : last.run.calls[i].key \in declaring

\* C11 as the code has it: the lookup goes by registry key through the
\* fixed table (system -> systemLogger, authentication -> authLogger,
\* validation -> validationLogger, usage -> usageLogger), whatever category
\* the entries declare. For a category of the table whose key is an entry
\* of the Schema the logger called is the one built from the entry under
\* that key: the payload was validated against that entry's required
\* fields and is written with that entry's redaction set. The lookup is
\* undefined exactly when the category is outside the table or the Schema
\* has no entry under its key.
C11_LookupByKey ==
    LookedUp =>
        LET c == MetaOf(last.input)["category"]
            key == KeyOf(c)
        IN /\ Found <=> key \in DOMAIN schema.loggers
           /\ \A i \in 1..Len(last.run.calls) :
                LET call == last.run.calls[i]
                IN /\ call.key = key
                   /\ RequiredSet(key, call.method) \subseteq Keys(call.obj)
                   /\ LoggerAt(key).key = key
                   /\ \A f \in Keys(call.obj) :
                        Written(call).fields[f] =
                            IF f \in RedactSet(key) THEN "[Redacted]"
                            ELSE IF f = "type" THEN levelLabel(call.method)
                            ELSE call.obj.f[f]

\* the lookup of "usage" returned the logger of the entry under usageLogger,
\* which declares another category, and the record was written with that
\* entry's redaction of code
C11_Witness ==
    /\ last.op = "loggerMiddleware" /\ Attached(last.input)
    /\ MetaOf(last.input)["category"] = "usage"
    /\ schema.loggers["usageLogger"].category # "usage"
    /\ Len(last.run.calls) = 1
    /\ last.run.calls[1].key = "usageLogger"
    /\ "code" \in Keys(last.run.calls[1].obj)
    /\ "code" \in Range(schema.loggers["usageLogger"].redactFields)
    /\ Written(last.run.calls[1]).fields["code"] = "[Redacted]"

(***************************************************************************)
(* C12. Every one of the six severity methods (trace, debug, info, warn,   *)
(* error, fatal) of every registry logger is wrapped: a call of method m   *)
(* on the logger under key k is validated against the required-field list  *)
(* of (k, m) and of no other method, and no call of a severity method      *)
(* reaches the sink without validation.                                    *)
(***************************************************************************)
C12_EveryMethodWrapped ==
    /\ \A k \in DOMAIN registry.refs, m \in Methods :
         LoggerAt(k).methods[m] = [wrapped |-> TRUE, loggerKey |-> k, method |-> m]
    /\ last.op = "log" =>
         LET k == last.input.key
             m == last.input.method
             fails == ~(RequiredSet(k, m) \subseteq Keys(last.input.obj))
         IN /\ fails => last.run.threw /\ last.run.calls = <<>>
            /\ ~fails => ~last.run.threw /\ last.run.calls = <<last.input>>
    /\ \A i \in 1..Len(sink) :
         RequiredSet(sink[i].call.key, sink[i].call.method) \subseteq Keys(sink[i].call.obj)

\* a trace call lacking a required field was rejected, under a schema that
\* would have accepted the same payload for another method
C12_Witness ==
    /\ last.op = "log" /\ last.input.method = "trace" /\ last.run.threw
    /\ \E m \in Methods : RequiredSet(last.input.key, m) \subseteq Keys(last.input.obj)

\* a debug call with a complete payload reached the underlying method
C12_WitnessAccepted ==
    /\ last.op = "log" /\ last.input.method = "debug" /\ ~last.run.threw
    /\ RequiredSet(last.input.key, "debug") # {}
    /\ Len(sink) = 1

MergedOrder(key, method) ==
    LET common == schema.common.requiredFields[method]
        custom == schema.loggers[key].customRequiredFields[method]
        New(f) == f \notin Range(common)
    IN common \o SelectSeq(custom, New)

\* the fields of the merged list the payload lacks, in that order
AbsentInOrder(key, method, obj) ==
    LET Absent(f) == f \notin Keys(obj)
    IN SelectSeq(MergedOrder(key, method), Absent)

\* the names separated by ", "
RECURSIVE CommaList(_)
CommaList(names) ==
    IF names = <<>> THEN ""
    ELSE CommaList(SubSeq(names, 1, Len(names) - 1))
         \o (IF Len(names) > 1 THEN ", " ELSE "") \o names[Len(names)]

C14_MessageListsMissing ==
    last.op = "log" /\ last.run.threw =>
        LET k == last.input.key
            m == last.input.method
            absent == AbsentInOrder(k, m, last.input.obj)
        IN /\ absent # <<>>
           /\ \A i, j \in 1..Len(absent) : absent[i] = absent[j] => i = j
           /\ last.input.obj.t # "object" => absent = MergedOrder(k, m)
           /\ last.run.message =
                "Missing required fields for " \o k \o "." \o m \o ": " \o CommaList(absent)

\* the message of a call whose custom list repeats a common field names
\* the two absent fields once each, the common one first
C14_Witness ==
    /\ last.op = "log" /\ last.run.threw
    /\ last.input.key = "usageLogger" /\ last.input.method = "error"
    /\ Keys(last.input.obj) = {"code"}
    /\ last.run.message = "Missing required fields for usageLogger.error: context, error"

\* the message of a call with null lists every required field
C14_WitnessNonObject ==
    /\ last.op = "log" /\ last.run.threw
    /\ last.input.obj.t = "null"
    /\ last.run.message = "Missing required fields for authLogger.warn: code, context, reason"

(***************************************************************************)
(* C15. Schema loading accepts a raw configuration if and only if (1) the  *)
(* top-level value is a non-array object, (2) loggers is present, (3)      *)
(* every logger entry has a non-empty category that is a string and (4)    *)
(* every required-field list that is present is an array of strings; any   *)
(* violation of these rules makes loading fail. Stated for configurations  *)
(* with non-empty keys whose redaction paths pino can parse.               *)
(***************************************************************************)
Entries(config) == {config.loggers[config.order[i]] : i \in 1..Len(config.order)}

Rules(config) ==
    /\ config.top = "object"
    /\ config.hasLoggers
    /\ \A e \in Entries(config) :
         e.t = "object" /\ e.categoryType = "string" /\ e.category # ""
    /\ config.common.requiredShape = "arrays"
    /\ \A e \in Entries(config) : e.customRequiredShape = "arrays"

Parsable(config) ==
    \A e \in Entries(config) : MalformedPath \notin Range(e.redactFields)

C15_AcceptsIffRules ==
    proc.state # "loading" /\ Parsable(schema) /\ "" \notin Range(schema.order)
    => (proc.state = "running" <=> Rules(schema))

(***************************************************************************)
(* C16. Any failure while validating the schema or building the loggers at *)
(* startup terminates the process with a non-zero exit status: no fallback *)
(* logger is substituted, no partially built registry is exported and no   *)
(* request is handled afterwards.                                          *)
(***************************************************************************)
C16_FailureExits ==
    /\ proc.state # "loading" /\ generateLoggers(schema).threw
       => /\ proc.state = "exited"
          /\ proc.exitCode # 0
    /\ proc.state = "exited"
       => /\ registry = EmptyRegistry
          /\ ~proc.listening
    /\ proc.listening => proc.state = "running"

\* the process exited on a configuration that validateLoggerConfig refuses
C16_Witness ==
    /\ proc.state = "exited" /\ proc.exitCode = 1
    /\ validateLoggerConfig(schema).threw
    /\ registry = EmptyRegistry

\* the process exited when the second logger could not be created, the
\* first one having been built
C16_WitnessPartial ==
    /\ proc.state = "exited" /\ proc.exitCode = 1
    /\ ~validateLoggerConfig(schema).threw
    /\ Len(schema.order) = 2
    /\ MalformedPath \notin Range(schema.loggers[schema.order[1]].redactFields)
    /\ MalformedPath \in Range(schema.loggers[schema.order[2]].redactFields)
    /\ registry = EmptyRegistry

(***************************************************************************)
(* C17. After a successful build, for every entry of schema.loggers the    *)
(* registry holds exactly one logger under that entry's key, whose         *)
(* redaction path set is common.redactFields united with the entry's       *)
(* redactFields (only the common ones when the entry declares none); no    *)
(* entry is skipped and no logger exists without an entry.                 *)
(***************************************************************************)
\* as claimed: a logger for every entry
C17_LoggerPerEntry ==
    proc.state = "running" => DOMAIN registry.refs = Range(schema.order)

\* C17 as the code has it: a logger for every entry under a key other than
\* the empty string (generateLoggers skips the entry under the key "" with
\* a warning), each a separate object built from its own entry with the
\* redaction paths of common.redactFields and of the entry, and no logger
\* without an entry.
C17_LoggerPerNamedEntry ==
    proc.state = "running" =>
        /\ DOMAIN registry.refs = Range(schema.order) \ {""}
        /\ Len(registry.heap) = Cardinality(DOMAIN registry.refs)
        /\ \A j, k \in DOMAIN registry.refs : registry.refs[j] = registry.refs[k] => j = k
        /\ \A k \in DOMAIN registry.refs :
             /\ LoggerAt(k).key = k
             /\ Range(LoggerAt(k).redact.paths) = RedactSet(k)
             /\ schema.loggers[k].redactFields = <<>>
                  => Range(LoggerAt(k).redact.paths) = Range(schema.common.redactFields)

\* two loggers were built, one with the common path and its own, one with
\* the common path alone
C17_Witness ==
    /\ proc.state = "running"
    /\ DOMAIN registry.refs = {"usageLogger", "systemLogger"}
    /\ Range(LoggerAt("usageLogger").redact.paths) = {"password", "token"}
    /\ Range(LoggerAt("systemLogger").redact.paths) = {"password"}

\* the build succeeded and skipped the entry under the empty key
C17_WitnessSkipped ==
    /\ proc.state = "running"
    /\ "" \in Range(schema.order)
    /\ DOMAIN registry.refs = {"usageLogger"}

(***************************************************************************)
(* C18. For every record that reaches a sink and every configured          *)
(* redaction path p present in the payload, the value output for p is the  *)
(* censor token "[Redacted]" whatever the original value and its type, and *)
(* every field not on a configured path is output with its original value. *)
(***************************************************************************)
C18_RedactedElseUnchanged ==
    \A i \in 1..Len(sink) :
        LET call == sink[i].call
            out == Written(call)
        IN out.written =>
             \A f \in Keys(call.obj) :
                /\ f \in RedactSet(call.key) => out.fields[f] = "[Redacted]"
                /\ f \notin RedactSet(call.key) => out.fields[f] = call.obj.f[f]

(***************************************************************************)
(* C19. Redaction happens after validation and before sink output:         *)
(* validation sees the unredacted payload, a payload whose required field  *)
(* is also a redaction path is accepted, and for every payload the         *)
(* validation result is the same as for its redacted form.                 *)
(***************************************************************************)
\* the payload with the values on the logger's redaction paths censored
RedactedForm(key, obj) ==
    IF obj.t = "object" THEN Obj(Redacted(obj.f, LoggerAt(key).redact)) ELSE obj

C19_ValidationBeforeRedaction ==
    last.op = "log" =>
        LET k == last.input.key
            m == last.input.method
            obj == last.input.obj
        IN /\ last.run.threw = validateFields(k, m, schema, RedactedForm(k, obj)).threw
           /\ RequiredSet(k, m) \subseteq Keys(obj) => ~last.run.threw
           /\ ~last.run.threw =>
                /\ last.run.calls = <<SinkCall(k, m, obj, last.input.msg, last.input.args)>>
                /\ \A f \in Keys(obj) \cap RedactSet(k) :
                     /\ f \in DOMAIN Written(last.run.calls[1]).fields
                     /\ Written(last.run.calls[1]).fields[f] = "[Redacted]"

\* a payload whose required field code is a redaction path of the logger
\* was accepted, handed on as it was and written with the field censored
C19_Witness ==
    /\ last.op = "log" /\ ~last.run.threw
    /\ "code" \in RequiredSet(last.input.key, last.input.method)
    /\ "code" \in RedactSet(last.input.key)
    /\ Len(sink) = 1
    /\ sink[1].call.obj.f["code"] = "X"
    /\ Written(sink[1].call).written
    /\ Written(sink[1].call).fields["code"] = "[Redacted]"

(***************************************************************************)
(* C20. Loggers of distinct categories share no mutable state: a log call, *)
(* a child binding or a property mutation on one category's logger leaves  *)
(* every other category's logger (its redaction set, its required fields,  *)
(* its bindings, its wrapped methods and the records it emits) unchanged.  *)
(***************************************************************************)
\* the calls that reached the underlying methods of the logger under key
RecordsOf(key) ==
    LET Mine(e) == e.call.key = key
    IN SelectSeq(sink, Mine)

C20_Isolation ==
    [][\A k \in DOMAIN registry.refs :
          last'.input.key # k =>
             /\ k \in DOMAIN registry'.refs
             /\ registry'.heap[registry'.refs[k]] = LoggerAt(k)
             /\ schema' = schema
             /\ SelectSeq(sink', LAMBDA e : e.call.key = k) = RecordsOf(k)]_vars

\* after info of one logger was replaced by a function that does not
\* validate, a call of info on another logger with an incomplete payload
\* was still rejected
C20_Witness ==
    /\ last.op = "log" /\ last.input.method = "info" /\ last.run.threw
    /\ \E k \in DOMAIN registry.refs :
         /\ k # last.input.key
         /\ ~LoggerAt(k).methods["info"].wrapped
    /\ LoggerAt(last.input.key).methods["info"].wrapped

\* a child was bound on one logger and the bindings of the registry
\* loggers are as they were built
C20_WitnessChild ==
    /\ last.op = "child"
    /\ Len(registry.heap) > Cardinality(DOMAIN registry.refs)
    /\ \A k \in DOMAIN registry.refs : LoggerAt(k).bindings = {}

(***************************************************************************)
(* C21. For any interleaving of log calls from concurrent requests on the  *)
(* same category logger, each call's accept/reject result and the record   *)
(* forwarded to the sink depend only on that call's own (method, payload,  *)
(* message); no log call, successful or failing, changes the Schema, the   *)
(* registry or the caller's payload. Stated of every call of a wrapped     *)
(* method, whatever calls were made before it.                             *)
(***************************************************************************)
C21_CallsIndependent ==
    [][last'.op = "log" /\ passes' # passes =>
         LET call == last'.input
             fails == ~(RequiredSet(call.key, call.method) \subseteq Keys(call.obj))
         IN /\ schema' = schema
            /\ registry' = registry
            /\ LoggerAt(call.key).methods[call.method].wrapped =>
                 /\ last'.run.threw <=> fails
                 /\ last'.run.threw => sink' = sink
                 /\ ~last'.run.threw => sink' = Append(sink, [by |-> "log", call |-> call])]_vars

\* a call was rejected on a logger that had accepted the call before it
C21_Witness ==
    /\ last.op = "log" /\ last.run.threw
    /\ passes["registry"] = 2
    /\ Len(sink) = 1
    /\ sink[1].call.key = last.input.key
    /\ sink[1].call.method = last.input.method
    /\ LoggerAt(last.input.key).methods[last.input.method].wrapped

(***************************************************************************)
(* C24. A response logged through the send interceptor of responseLogger   *)
(* is emitted at the severity derived from its status code: with metadata  *)
(* attached, res.statusCode < 400 selects info, a status in [400,500)      *)
(* selects warn and a status >= 500 selects error, and exactly one log     *)
(* entry is produced per response.                                         *)
(***************************************************************************)
C24_SendSeverity ==
    last.op = "send" /\ LookedUp =>
        \A i \in 1..Len(last.run.calls) :
            last.run.calls[i].method =
                IF last.input.statusCode < 400 THEN "info"
                ELSE IF last.input.statusCode < 500 THEN "warn"
                ELSE "error"

\* C25: an outcome that carries no logging metadata passes both correlators
\* untouched: no logger is looked up, nothing is emitted, nothing is thrown,
\* the same object is forwarded exactly once, and its statusCode, message and
\* data are what they were.
C25_BareOutcomePassesThrough ==
    last.op \in Correlators /\ ~Attached(last.input) =>
        /\ last.run.calls = <<>>
        /\ ~last.run.threw
        /\ last.run.nexts = <<last.input>>
        /\ last.run.obj = last.input

C25_Witness ==
    /\ last.op = "errorLogger"
    /\ ~Attached(last.input)
    /\ last.run.nexts = <<last.input>>
    /\ Len(last.run.responses) = 1

\* C26: loggerMiddleware hands the outcome to the next handler exactly once,
\* before the log call is dispatched: the response is the one the response
\* handler produces for that outcome alone, whether the log call returns or
\* is rejected.
C26_ForwardBeforeLog ==
    last.op = "loggerMiddleware" =>
        /\ last.run.nexts = <<last.input>>
        /\ last.run.responses = responseErrorHandler(last.input).responses
        /\ last.input.cls = "ApiResponse" \/ InstanceOfError(last.input) =>
              Len(last.run.responses) = 1

C26_Witness ==
    /\ last.op = "loggerMiddleware"
    /\ last.run.threw
    /\ last.run.nexts = <<last.input>>
    /\ Len(last.run.responses) = 1

\* C27: for an error that carries metadata, errorLogger clears the metadata
\* and calls next(err) exactly once only after the log call returned; when
\* the log call throws, the metadata stays attached, next is not called, and
\* a later pass of the same error through errorLogger attempts the emission
\* again.
C27_ClearAfterLog ==
    /\ [](last.op = "errorLogger" /\ Attached(last.input) =>
            /\ last.run.threw =>
                  /\ last.run.obj = last.input
                  /\ last.run.nexts = <<>>
                  /\ last.run.calls = <<>>
                  /\ outcome = last.input
            /\ ~last.run.threw =>
                  /\ last.run.obj = [last.input EXCEPT !.logger = NonObj("null")]
                  /\ last.run.nexts = <<last.run.obj>>)
    /\ [][/\ last.op = "errorLogger" /\ last.run.threw
           /\ last'.op = "errorLogger" /\ passes' # passes
           => /\ last'.input = last.input
              /\ last'.run.threw
              /\ last'.run.message = last.run.message]_vars

C27_Witness ==
    /\ last.op = "errorLogger"
    /\ Attached(last.input)
    /\ last.run.threw
    /\ passes["errorLogger"] = 2
    /\ Attached(outcome)

Answered ==
    IF last.op = "errorLogger"
    THEN IF last.run.threw THEN PlainError(last.run.message) ELSE last.run.nexts[1]
    ELSE last.input

\* an error response was sent by the latest correlator chain
ErrorAnswered ==
    /\ last.op \in Correlators
    /\ Answered.cls # "ApiResponse"
    /\ Len(last.run.responses) = 1

\* the field of an error, or the value given when the error has no such field
FieldOr(e, k, v) == IF k \in DOMAIN e THEN e[k] ELSE v

\* C22: the body of every error response is {error: true, message, data,
\* stack}: message is the error's message, or the default text when that is
\* empty; data is the error's data, or null when it has none; stack is
\* undefined in production mode.
C22_ErrorEnvelope ==
    ErrorAnswered =>
        LET body == last.run.responses[1].body
        IN /\ DOMAIN body = {"error", "message", "data", "stack"}
           /\ body.error = TRUE
           /\ body.message = IF Answered.message = "" THEN "An unexpected error occurred"
                              ELSE Answered.message
           /\ body.data = FieldOr(Answered, "data", NonObj("null"))
           /\ host.NODE_ENV = "production" => body.stack = Undefined
           /\ body.stack # Undefined => body.stack = "stack"

\* C29: the status of every error response is the error's statusCode when
\* that is a non-zero number and 500 when it is absent or 0, except that a
\* GitError is answered with 500 and an AxiosError with the status of its
\* response, or 500 when it has none.
C29_ErrorStatus ==
    ErrorAnswered =>
        last.run.responses[1].status =
            IF Answered.cls = "GitError" THEN 500
            ELSE IF Answered.cls = "AxiosError"
            THEN IF Answered.response.t = "object" /\ Answered.response.f.status # 0
                 THEN Answered.response.f.status ELSE 500
            ELSE IF FieldOr(Answered, "statusCode", 0) # 0 THEN Answered.statusCode
            ELSE 500

\* the levels that have a file destination
FileLevels == {"error", "warn", "info"}

\* the path the convention gives for display name C, level L and day D
ConventionPath(C, L, D) == "./logs/" \o C \o "/" \o L \o "/" \o L \o "-" \o D \o ".log"

\* display names and days the convention is compared on
DisplayNames == {"System", "Usage", "Auth", "Validation"}

Days == {c.date : c \in Clocks}

\* C23: the file destination of the logger with display name C for level L,
\* generated on day D, is ./logs/C/L/L-D.log, and distinct (C, L, D) triples
\* have distinct paths.
C23_PathPerTriple ==
    proc.state = "running" =>
        \A k \in DOMAIN registry.refs :
            LET C == schema.loggers[k].category
            IN /\ DOMAIN LoggerAt(k).targets = FileLevels
               /\ \A L \in FileLevels :
                     /\ LoggerAt(k).targets[L] = ConventionPath(C, L, host.now.date)
                     /\ \A C2 \in DisplayNames, L2 \in FileLevels, D2 \in Days :
                           LoggerAt(k).targets[L] = ConventionPath(C2, L2, D2)
                               => C2 = C /\ L2 = L /\ D2 = host.now.date

\* the example: category system, display name System, level error, a
\* registry built on 2024-01-01 (at the last instant of that day)
C23_Witness ==
    /\ proc.state = "running"
    /\ host.now = [date |-> "2024-01-01", time |-> "23:59:59.999Z"]
    /\ "systemLogger" \in DOMAIN registry.refs
    /\ schema.loggers["systemLogger"].category = "System"
    /\ LoggerAt("systemLogger").targets["error"] = "./logs/System/error/error-2024-01-01.log"

====
